---- MODULE Spec2Model ----
(***************************************************************************)
(* State-machine model of the sensor logging / transport system:           *)
(*   - Logger        (src/Project/logger.py):  buffered, rotating,         *)
(*                    zip-archiving CSV store with a merged read-back.     *)
(*   - NetworkServer (src/Project/server/server.py): accept loop, one      *)
(*                    handler thread per connection, stop().               *)
(*   - NetworkClient (src/Project/network/client.py): connect/send/close   *)
(*                    with acknowledgement, retry and back-off.            *)
(*                                                                         *)
(* Time is counted in ticks; TicksPerDay ticks make one calendar day.      *)
(* File sizes are counted in lines.                                        *)
(***************************************************************************)
EXTENDS Integers, Sequences, FiniteSets, TLC

---------------------------------------------------------------------------
(* Bounds of the model.                                                    *)
MaxRecords == 4          \* log_reading calls explored
MaxTicks == 2            \* clock ticks explored
TicksPerDay == 2         \* resolution of the clock: ticks per calendar day
MaxStarts == 2           \* public start() calls explored
MaxConns == 2            \* connections made to the listener
MaxMsgs == 2             \* lines a client writes on one connection
MaxStopMsgs == 1         \* the same, in the runs that also call stop()
MaxCalls == 2            \* send() calls of the NetworkClient
MaxArchiveErrors == 1    \* archive writes that fail
MaxWriters == 2          \* threads that share one Logger
ConnectRetries == 1      \* retries of the client that calls connect() itself
MaxPolicyRecords == 11   \* log_reading calls where the buffer can reach ten rows
MaxSends == 6            \* send() calls made by run_client

---------------------------------------------------------------------------
(* Logger: values and conversions.                                         *)

None == -1               \* Python's None for current_file_path
NoFilter == "None"       \* Python's None for the sensor_id argument of read_logs

Sensors == {"s1", "s2"}
Timestamps == 1..2       \* timestamps a caller may pass to log_reading
\* the (sensor_id, timestamp) pairs callers pass to log_reading
Inputs == {<<"s1", 1>>, <<"s2", 2>>}
Fractions == {0, 4}      \* thousandths a value may carry beyond its integer part

\* csv header row, logger.py:46
Header == <<"timestamp", "sensor_id", "value", "unit">>

\* datetime.isoformat(), logger.py:72
IsoFormat(ts) == <<"iso", ts>>

\* datetime.fromisoformat(), logger.py:142
FromIsoFormat(s) == s[2]

\* f"{value:.2f}": a value given in thousandths, printed with two decimals
FormatValue(v) == <<"f2", (v + 5) \div 10>>

\* float(row['value']): back to thousandths
ParseFloat(s) == s[2] * 10

\* the row log_reading appends to the buffer, logger.py:72
MakeRow(sensor_id, timestamp, value, unit) ==
    <<IsoFormat(timestamp), sensor_id, FormatValue(value), unit>>

\* the dict read_logs yields for a row, logger.py:144-149
RowReading(row) ==
    [timestamp |-> FromIsoFormat(row[1]), sensor_id |-> row[2],
     value |-> ParseFloat(row[3]), unit |-> row[4]]

\* the configurations explored (logger.py:24-30); rotate_every is in ticks,
\* max_size in lines
Configs ==
    { [buffer_size |-> 1, rotate_after_lines |-> 1, rotate_every |-> 100,
       max_size |-> 100, retention_days |-> 0],
      [buffer_size |-> 2, rotate_after_lines |-> 4, rotate_every |-> 100,
       max_size |-> 100, retention_days |-> 30],
      [buffer_size |-> 1, rotate_after_lines |-> 100, rotate_every |-> TicksPerDay,
       max_size |-> 100, retention_days |-> 30],
      [buffer_size |-> 2, rotate_after_lines |-> 100, rotate_every |-> 100,
       max_size |-> 3, retention_days |-> 30] }

VARIABLES
    config,      \* Logger configuration (_load_config)
    now,         \* wall clock, in ticks
    store,       \* Logger fields and the log directory on disk
    recorded,    \* history: every row passed to log_reading, in call order
    justFlushed, \* history: rows the last operation moved from buffer to file
    rotlog,      \* history: one entry per rotation
    pruned,      \* history: an archive has been deleted by cleanup
    called,      \* history: the public operations called besides log_reading
    nstarts,     \* history: number of public start() calls
    archive_errors, \* history: number of archive writes that raised
    writers,     \* where each thread sharing the Logger is in log_reading
    app          \* run_client of main.py: where it is, its counter, its history

VARIABLES
    running,        \* NetworkServer.running
    server_socket,  \* NetworkServer.server_socket: "None" or "sock"
    lsock,          \* the listening socket: "none", "listening" or "closed"
    apc,            \* where the thread running NetworkServer.start() is
    acc,            \* the connection start() has accepted and not yet registered
    spc,            \* where the thread running NetworkServer.stop() is
    stoppedAt,      \* history: where start() was when stop() was called
    lock,           \* holder of _clients_lock: "none", "start", "stop" or "handler"
    registry,       \* NetworkServer._client_sockets
    conn,           \* per connection: both endpoints, the bytes in flight, the handler
    cli             \* the NetworkClient: its fields, where send() is, its history

logVars == <<config, now, store, recorded, justFlushed, rotlog, pruned,
             called, nstarts, archive_errors, writers, app>>

srvVars == <<running, server_socket, lsock, apc, acc, spc, stoppedAt, lock,
             registry>>

netVars == <<srvVars, conn, cli, app>>

vars == <<logVars, netVars>>

---------------------------------------------------------------------------
(* Logger operations, as functions of the store record S:                  *)
(*   buffer, current_file (an open handle exists), pending (text written   *)
(*   to the handle but not yet on disk), current_file_path,                *)
(*   last_rotation_time, line_count, disk (name -> lines), archive         *)
(*   (name -> content, mtime).                                             *)

\* now.strftime(filename_pattern) for the default daily pattern
FileName(t) == t \div TicksPerDay

Restrict(f, D) == [x \in D |-> f[x]]

\* Logger._get_line_count
GetLineCount(S) ==
    IF S.current_file_path \notin DOMAIN S.disk
    THEN 0
    ELSE Len(S.disk[S.current_file_path]) - 1

\* start that writes the header whether or not the file exists
StartAlwaysHeader(S) ==
    LET filename == FileName(now)
        file_exists == filename \in DOMAIN S.disk
        disk1 == IF file_exists THEN S.disk ELSE (filename :> <<>>) @@ S.disk
        S1 == [S EXCEPT !.current_file_path = filename,
                        !.current_file = TRUE,
                        !.disk = disk1,
                        !.pending = <<Header>>,
                        !.last_rotation_time = now]
    IN  [S1 EXCEPT !.line_count = GetLineCount(S1)]

\* Logger.start
StartOp(S) ==
    LET filename == FileName(now)
        file_exists == filename \in DOMAIN S.disk
        disk1 == IF file_exists THEN S.disk ELSE (filename :> <<>>) @@ S.disk
        S1 == [S EXCEPT !.current_file_path = filename,
                        !.current_file = TRUE,
                        !.disk = disk1,
                        !.pending = IF file_exists THEN <<>> ELSE <<Header>>,
                        !.last_rotation_time = now]
    IN  [S1 EXCEPT !.line_count = GetLineCount(S1)]

\* flush that leaves the rows in the handle (no current_file.flush())
FlushNoSync(S) ==
    IF S.current_file /\ S.buffer # <<>>
    THEN [S EXCEPT !.pending = @ \o S.buffer,
                   !.line_count = @ + Len(S.buffer),
                   !.buffer = <<>>]
    ELSE S

\* flush that drops the buffered rows when it cannot write them
FlushClearsAlways(S) ==
    IF S.current_file /\ S.buffer # <<>>
    THEN [S EXCEPT !.disk[S.current_file_path] = @ \o S.pending \o S.buffer,
                   !.pending = <<>>,
                   !.line_count = @ + Len(S.buffer),
                   !.buffer = <<>>]
    ELSE [S EXCEPT !.buffer = <<>>]

\* Logger.flush
FlushOp(S) ==
    IF S.current_file /\ S.buffer # <<>>
    THEN [S EXCEPT !.disk[S.current_file_path] = @ \o S.pending \o S.buffer,
                   !.pending = <<>>,
                   !.line_count = @ + Len(S.buffer),
                   !.buffer = <<>>]
    ELSE S

\* a rotation test that wants all three triggers at once
ShouldRotateAll(S) ==
    /\ now - S.last_rotation_time >= config.rotate_every
    /\ S.current_file_path \in DOMAIN S.disk
    /\ Len(S.disk[S.current_file_path]) >= config.max_size
    /\ S.line_count >= config.rotate_after_lines

\* Logger._should_rotate
ShouldRotate(S) ==
    \/ now - S.last_rotation_time >= config.rotate_every
    \/ /\ S.current_file_path \in DOMAIN S.disk
       /\ Len(S.disk[S.current_file_path]) >= config.max_size
    \/ S.line_count >= config.rotate_after_lines

\* Logger._archive
ArchiveOp(S) ==
    IF S.current_file_path # None /\ S.current_file_path \in DOMAIN S.disk
    THEN [S EXCEPT
            !.archive = (S.current_file_path :>
                            [content |-> S.disk[S.current_file_path], mtime |-> now])
                        @@ S.archive,
            !.disk = Restrict(S.disk, DOMAIN S.disk \ {S.current_file_path})]
    ELSE S

\* the archives _cleanup_old_archives removes
Expired(S) ==
    {a \in DOMAIN S.archive :
        (now - S.archive[a].mtime) \div TicksPerDay > config.retention_days}

\* Logger._cleanup_old_archives
CleanupOp(S) ==
    [S EXCEPT !.archive = Restrict(S.archive, DOMAIN S.archive \ Expired(S))]

\* Logger._rotate_if_needed
RotateIfNeeded(S) ==
    IF ShouldRotate(S) THEN StartOp(CleanupOp(ArchiveOp(S))) ELSE S

\* flush conditions that fire one row early
FlushDueEarly(S) ==
    \/ Len(S.buffer) >= config.buffer_size - 1
    \/ Len(S.buffer) % 10 = 0

\* flush conditions without the multiple-of-10 test
FlushDuePrimaryOnly(S) == Len(S.buffer) >= config.buffer_size

\* the flush conditions of log_reading, logger.py:75 and :80
FlushDue(S) ==
    \/ Len(S.buffer) >= config.buffer_size
    \/ Len(S.buffer) % 10 = 0

\* Logger.log_reading
LogReadingOp(S, row) ==
    LET S1 == [S EXCEPT !.buffer = Append(@, row)]
    IN  IF FlushDue(S1) THEN RotateIfNeeded(FlushOp(S1)) ELSE S1

\* current_file.close(): the handle's pending text reaches the disk
CloseOp(S) ==
    IF S.current_file
    THEN [S EXCEPT !.disk[S.current_file_path] = @ \o S.pending,
                   !.pending = <<>>,
                   !.current_file = FALSE]
    ELSE S

\* Logger.stop
StopOp(S) == RotateIfNeeded(CloseOp(FlushOp(S)))

\* a query that leaves out the rows stamped `end`
ParseLinesEndExclusive(lines, start, end, sensor_id) ==
    LET rows == IF lines = <<>> THEN <<>> ELSE Tail(lines)
        Match(row) == /\ start <= FromIsoFormat(row[1])
                      /\ FromIsoFormat(row[1]) < end
                      /\ (sensor_id = NoFilter \/ row[2] = sensor_id)
        kept == SelectSeq(rows, Match)
    IN  [i \in 1..Len(kept) |-> RowReading(kept[i])]

\* parse_file / parse_zip of read_logs: the readings of one file, in file order
ParseLines(lines, start, end, sensor_id) ==
    LET rows == IF lines = <<>> THEN <<>> ELSE Tail(lines)
        Match(row) == /\ start <= FromIsoFormat(row[1])
                      /\ FromIsoFormat(row[1]) <= end
                      /\ (sensor_id = NoFilter \/ row[2] = sensor_id)
        kept == SelectSeq(rows, Match)
    IN  [i \in 1..Len(kept) |-> RowReading(kept[i])]

SeqRange(s) == {s[i] : i \in 1..Len(s)}

\* Logger.read_logs, as the set of readings it yields
ReadLogs(S, start, end, sensor_id) ==
    UNION ( {SeqRange(ParseLines(S.disk[f], start, end, sensor_id)) :
                f \in DOMAIN S.disk}
            \cup
            {SeqRange(ParseLines(S.archive[a].content, start, end, sensor_id)) :
                a \in DOMAIN S.archive} )

---------------------------------------------------------------------------
(* Wire format. A byte is one of the characters below; Bad8 stands for a   *)
(* byte that is not valid UTF-8.                                           *)

NL == "\n"
SP == " "
Bad8 == "ff"
DigitChars == <<"1", "2", "3", "4", "5", "6", "7", "8", "9">>
Whitespace == {NL, SP}

Conns == 1..MaxConns

IsDigit(b) == \E d \in 1..Len(DigitChars) : DigitChars[d] = b

DigitValue(b) == CHOOSE d \in 1..Len(DigitChars) : DigitChars[d] = b

\* json.dumps(data) for a payload that is a number below ten
JsonDumps(data) == <<DigitChars[data]>>

\* NetworkClient._serialize
Serialize(data) == JsonDumps(data) \o <<NL>>

\* bytes.strip() / str.strip()
RECURSIVE Strip(_)
Strip(text) ==
    IF text = <<>> THEN <<>>
    ELSE IF Head(text) \in Whitespace THEN Strip(Tail(text))
    ELSE IF text[Len(text)] \in Whitespace THEN Strip(SubSeq(text, 1, Len(text) - 1))
    ELSE text

\* the value of a decimal literal
RECURSIVE DecimalValue(_)
DecimalValue(text) ==
    IF text = <<>> THEN 0
    ELSE 10 * DecimalValue(SubSeq(text, 1, Len(text) - 1)) + DigitValue(text[Len(text)])

\* json.loads succeeds on the text (over this alphabet: a decimal literal)
IsJson(text) == text # <<>> /\ \A i \in 1..Len(text) : IsDigit(text[i])

\* NetworkServer._deserialize: json.loads(raw.decode('utf-8').strip())
Deserialize(raw) ==
    IF \E i \in 1..Len(raw) : raw[i] = Bad8
    THEN [status |-> "UnicodeDecodeError", value |-> 0]
    ELSE IF IsJson(Strip(raw))
         THEN [status |-> "ok", value |-> DecimalValue(Strip(raw))]
         ELSE [status |-> "JSONDecodeError", value |-> 0]

HasLine(buffer) == \E i \in 1..Len(buffer) : buffer[i] = NL

FirstNL(buffer) == CHOOSE i \in 1..Len(buffer) :
                      buffer[i] = NL /\ \A j \in 1..(i - 1) : buffer[j] # NL

\* the lines clients write: bytes, and what decoding the line gives
JsonLine == [bytes |-> <<"1", NL>>, kind |-> "json"]
PaddedLine == [bytes |-> <<SP, "2", NL>>, kind |-> "json"]
GarbageLine == [bytes |-> <<"x", NL>>, kind |-> "malformed"]
EmptyLine == [bytes |-> <<NL>>, kind |-> "malformed"]
BadUtf8Line == [bytes |-> <<Bad8, NL>>, kind |-> "malformed"]

\* a write that ends in the middle of a line
PartialWrite == [bytes |-> <<"3">>, kind |-> "partial"]

---------------------------------------------------------------------------
(* Connections. One record per connection:                                 *)
(*   peer    client endpoint: "unborn", "open", "closed" (FIN sent) or     *)
(*           "reset"                                                       *)
(*   ssock   the socket accept() returned: "none", "open",                 *)
(*           "closed_by_stop" or "closed_by_handler"                       *)
(*   wire    bytes written by the client and not yet received              *)
(*   hbuf    the handler's `buffer`                                        *)
(*   hpc     where the handler thread is                                   *)
(*   unread  ACK tokens written by the handler and not yet read            *)
(* and history: sent (lines the client wrote), nlines (lines the handler   *)
(* extracted), decoded (values it parsed), acks (ACKs it wrote), hend      *)
(* (what ended the handler).                                               *)

NewConn ==
    [peer |-> "unborn", ssock |-> "none", wire |-> <<>>, hbuf |-> <<>>,
     hpc |-> "none", unread |-> 0, sent |-> <<>>, nlines |-> 0,
     decoded |-> <<>>, acks |-> 0, hend |-> "none"]

\* where the handler goes after touching its buffer: the inner while of
\* _handle_client, or back to recv
AfterBuffer(buffer) == IF HasLine(buffer) THEN "lines" ELSE "recv"

\* client_socket.sendall can write
CanWrite(K) == K.ssock = "open" /\ K.peer # "reset"

\* a recv whose chunk is put in front of the buffer
HandlerRecvPrepend(K, n) ==
    IF K.ssock # "open" \/ K.peer = "reset"
    THEN [K EXCEPT !.hpc = "finally", !.hend = "OSError"]
    ELSE IF K.wire # <<>>
         THEN [K EXCEPT !.hbuf = SubSeq(K.wire, 1, n) \o @,
                        !.wire = SubSeq(@, n + 1, Len(@)),
                        !.hpc = AfterBuffer(SubSeq(K.wire, 1, n) \o K.hbuf)]
         ELSE [K EXCEPT !.hpc = "finally", !.hend = "eof"]

\* a recv whose chunk replaces what was left in the buffer
HandlerRecvDropsRest(K, n) ==
    IF K.ssock # "open" \/ K.peer = "reset"
    THEN [K EXCEPT !.hpc = "finally", !.hend = "OSError"]
    ELSE IF K.wire # <<>>
         THEN [K EXCEPT !.hbuf = SubSeq(K.wire, 1, n),
                        !.wire = SubSeq(@, n + 1, Len(@)),
                        !.hpc = AfterBuffer(SubSeq(K.wire, 1, n))]
         ELSE [K EXCEPT !.hpc = "finally", !.hend = "eof"]

\* _handle_client, one recv(1024) that returns or raises; n bytes arrive
HandlerRecv(K, n) ==
    IF K.ssock # "open" \/ K.peer = "reset"
    THEN [K EXCEPT !.hpc = "finally", !.hend = "OSError"]
    ELSE IF K.wire # <<>>
         THEN [K EXCEPT !.hbuf = @ \o SubSeq(K.wire, 1, n),
                        !.wire = SubSeq(@, n + 1, Len(@)),
                        !.hpc = AfterBuffer(K.hbuf \o SubSeq(K.wire, 1, n))]
         ELSE [K EXCEPT !.hpc = "finally", !.hend = "eof"]

\* acknowledge a line whatever decoding it gave
HandlerLineAckAll(K) ==
    LET i == FirstNL(K.hbuf)
        rest == SubSeq(K.hbuf, i + 1, Len(K.hbuf))
    IN  [K EXCEPT !.hbuf = rest, !.nlines = @ + 1, !.acks = @ + 1,
                  !.unread = @ + 1, !.hpc = AfterBuffer(rest)]

\* drop the acknowledgement of a line that is followed by another line
HandlerLineDropAck(K) ==
    LET i == FirstNL(K.hbuf)
        json_bytes == SubSeq(K.hbuf, 1, i)
        rest == SubSeq(K.hbuf, i + 1, Len(K.hbuf))
        d == Deserialize(json_bytes)
    IN  IF d.status = "ok" /\ ~HasLine(rest)
        THEN [K EXCEPT !.hbuf = rest, !.nlines = @ + 1,
                       !.decoded = Append(@, d.value), !.acks = @ + 1,
                       !.unread = @ + 1, !.hpc = AfterBuffer(rest)]
        ELSE [K EXCEPT !.hbuf = rest, !.nlines = @ + 1, !.hpc = AfterBuffer(rest)]

\* _handle_client, one pass of the inner while: partition, _deserialize, ACK
HandlerLine(K) ==
    LET i == FirstNL(K.hbuf)
        json_bytes == SubSeq(K.hbuf, 1, i)
        rest == SubSeq(K.hbuf, i + 1, Len(K.hbuf))
        d == Deserialize(json_bytes)
        K1 == [K EXCEPT !.hbuf = rest, !.nlines = @ + 1]
    IN  CASE d.status = "ok" ->
               IF CanWrite(K)
               THEN [K1 EXCEPT !.decoded = Append(@, d.value), !.acks = @ + 1,
                               !.unread = @ + 1, !.hpc = AfterBuffer(rest)]
               ELSE [K1 EXCEPT !.decoded = Append(@, d.value),
                               !.hpc = "finally", !.hend = "OSError"]
          [] d.status = "JSONDecodeError" ->
               [K1 EXCEPT !.hpc = AfterBuffer(rest)]
          [] OTHER ->
               [K1 EXCEPT !.hpc = "finally", !.hend = "Exception"]

\* NetworkClient.__init__
NewClient(retries) ==
    [socket |-> 0, retries |-> retries, pc |-> "idle", data |-> 0,
     retry_count |-> 0, ends |-> <<>>, sleeps |-> <<>>, returned |-> <<>>,
     replaced |-> 0]

\* client.py:13, the default of retries
DefaultRetries == 3

\* main.py:47-58, run_client before its first step: the client is built,
\* results is the history of the send() results
NewApp(retries) ==
    [pc |-> "connect", retries |-> retries, consecutive_failures |-> 0,
     max_consecutive_failures |-> retries, connector |-> "new",
     results |-> <<>>, cause |-> "none"]

IdleApp == app = NewApp(DefaultRetries)

\* the results send() can return: with retries = 0 its loop makes no
\* attempt and it returns False (client.py:44, :80)
SendResults(retries) == IF retries > 0 THEN BOOLEAN ELSE {FALSE}

\* a loop body that leaves the counter alone after a successful send()
AfterSendNoReset(A, ok) ==
    LET n == IF ok THEN A.consecutive_failures ELSE A.consecutive_failures + 1
        A1 == [A EXCEPT !.consecutive_failures = n, !.results = Append(@, ok)]
    IN  IF ~ok /\ n >= A.max_consecutive_failures
        THEN [A1 EXCEPT !.pc = "finally", !.cause = "failures"]
        ELSE [A1 EXCEPT !.pc = "sleep"]

\* main.py:74-83, the loop body after send() has returned ok
AfterSend(A, ok) ==
    LET n == IF ok THEN 0 ELSE A.consecutive_failures + 1
        A1 == [A EXCEPT !.consecutive_failures = n, !.results = Append(@, ok)]
    IN  IF ~ok /\ n >= A.max_consecutive_failures
        THEN [A1 EXCEPT !.pc = "finally", !.cause = "failures"]
        ELSE [A1 EXCEPT !.pc = "sleep"]

\* NetworkServer.__init__
InitServer ==
    /\ running = FALSE
    /\ server_socket = "None"
    /\ lsock = "none"
    /\ apc = "create"
    /\ acc = 0
    /\ spc = "idle"
    /\ stoppedAt = "none"
    /\ lock = "none"
    /\ registry = <<>>
    /\ conn = [c \in Conns |-> NewConn]

\* a NetworkClient constructed with the defaults and not used
IdleClient == cli = NewClient(DefaultRetries)

---------------------------------------------------------------------------
(* Logger actions.                                                         *)

Writers == 1..MaxWriters

\* rows of `before` that `after` no longer buffers
Moved(before, after) == SubSeq(before, 1, Len(before) - Len(after))

\* Logger.__init__
InitStore ==
    [buffer |-> <<>>, current_file |-> FALSE, pending |-> <<>>,
     current_file_path |-> None, last_rotation_time |-> 0, line_count |-> 0,
     disk |-> <<>>, archive |-> <<>>]

InitLog ==
    /\ config \in Configs
    /\ now = 0
    /\ store = InitStore
    /\ recorded = <<>>
    /\ justFlushed = <<>>
    /\ rotlog = <<>>
    /\ pruned = FALSE
    /\ called = {}
    /\ nstarts = 0
    /\ archive_errors = 0
    /\ writers = [t \in Writers |-> "idle"]
    /\ InitServer
    /\ IdleClient
    /\ IdleApp

\* history of a rotation check made on S (after a flush or in stop)
RotLogAfter(S, n) ==
    IF ShouldRotate(S) /\ ArchiveOp(S) # S
    THEN Append(rotlog, [records |-> n, content |-> S.disk[S.current_file_path]])
    ELSE rotlog

PrunedAfter(S) ==
    pruned \/ (ShouldRotate(S) /\ Expired(ArchiveOp(S)) # {})

\* the application calls start() on a store with no open file
Start ==
    /\ ~store.current_file
    /\ nstarts < MaxStarts
    /\ store' = StartOp(store)
    /\ nstarts' = nstarts + 1
    /\ justFlushed' = <<>>
    /\ UNCHANGED <<config, now, recorded, rotlog, pruned, called>>
    /\ UNCHANGED <<archive_errors, writers>>
    /\ UNCHANGED netVars

\* the application calls log_reading(sensor_id, timestamp, value, unit)
LogReading(sensor_id, timestamp, frac) ==
    /\ store.current_file_path # None
    /\ Len(recorded) < MaxRecords
    /\ LET value == (Len(recorded) + 1) * 1000 + frac
           row == MakeRow(sensor_id, timestamp, value, "u")
           S1 == [store EXCEPT !.buffer = Append(@, row)]
           S2 == FlushOp(S1)
       IN  /\ store' = LogReadingOp(store, row)
           /\ recorded' = Append(recorded, row)
           /\ justFlushed' = Moved(S1.buffer, store'.buffer)
           /\ rotlog' = IF FlushDue(S1) THEN RotLogAfter(S2, Len(recorded) + 1) ELSE rotlog
           /\ pruned' = IF FlushDue(S1) THEN PrunedAfter(S2) ELSE pruned
    /\ UNCHANGED <<config, now, called, nstarts>>
    /\ UNCHANGED <<archive_errors, writers>>
    /\ UNCHANGED netVars

\* the application calls flush()
Flush ==
    /\ store.current_file_path # None
    /\ store' = FlushOp(store)
    /\ justFlushed' = Moved(store.buffer, store'.buffer)
    /\ called' = called \cup {"flush"}
    /\ UNCHANGED <<config, now, recorded, rotlog, pruned, nstarts>>
    /\ UNCHANGED <<archive_errors, writers>>
    /\ UNCHANGED netVars

\* the application calls stop()
Stop ==
    /\ store.current_file_path # None
    /\ LET S2 == CloseOp(FlushOp(store))
       IN  /\ store' = StopOp(store)
           /\ justFlushed' = Moved(store.buffer, store'.buffer)
           /\ rotlog' = RotLogAfter(S2, Len(recorded))
           /\ pruned' = PrunedAfter(S2)
    /\ called' = called \cup {"stop"}
    /\ UNCHANGED <<config, now, recorded, nstarts>>
    /\ UNCHANGED <<archive_errors, writers>>
    /\ UNCHANGED netVars

\* the wall clock advances
Tick ==
    /\ now < MaxTicks
    /\ now' = now + 1
    /\ UNCHANGED <<config, store, recorded, justFlushed, rotlog, pruned, called,
                   nstarts>>
    /\ UNCHANGED <<archive_errors, writers>>
    /\ UNCHANGED netVars

NextLog ==
    \/ Start
    \/ \E in \in Inputs, f \in Fractions : LogReading(in[1], in[2], f)
    \/ Flush
    \/ Stop
    \/ Tick

SpecLog == InitLog /\ [][NextLog]_vars

(* The Logger with buffers of ten rows and more: buffer_size below, at and *)
(* above 10, the last one with a row limit the tenth row reaches.          *)
PolicyConfigs ==
    {[buffer_size |-> 3, rotate_after_lines |-> 100, rotate_every |-> 100,
      max_size |-> 100, retention_days |-> 30],
     [buffer_size |-> 10, rotate_after_lines |-> 100, rotate_every |-> 100,
      max_size |-> 100, retention_days |-> 30],
     [buffer_size |-> 12, rotate_after_lines |-> 9, rotate_every |-> 100,
      max_size |-> 100, retention_days |-> 30]}

InitPolicy ==
    /\ config \in PolicyConfigs
    /\ now = 0
    /\ store = InitStore
    /\ recorded = <<>>
    /\ justFlushed = <<>>
    /\ rotlog = <<>>
    /\ pruned = FALSE
    /\ called = {}
    /\ nstarts = 0
    /\ archive_errors = 0
    /\ writers = [t \in Writers |-> "idle"]
    /\ InitServer
    /\ IdleClient
    /\ IdleApp

\* the application calls log_reading(sensor_id, timestamp, value, unit), up
\* to MaxPolicyRecords times
LogReadingLong(sensor_id, timestamp) ==
    /\ store.current_file_path # None
    /\ Len(recorded) < MaxPolicyRecords
    /\ LET value == (Len(recorded) + 1) * 1000
           row == MakeRow(sensor_id, timestamp, value, "u")
           S1 == [store EXCEPT !.buffer = Append(@, row)]
           S2 == FlushOp(S1)
       IN  /\ store' = LogReadingOp(store, row)
           /\ recorded' = Append(recorded, row)
           /\ justFlushed' = Moved(S1.buffer, store'.buffer)
           /\ rotlog' = IF FlushDue(S1) THEN RotLogAfter(S2, Len(recorded) + 1) ELSE rotlog
           /\ pruned' = IF FlushDue(S1) THEN PrunedAfter(S2) ELSE pruned
    /\ UNCHANGED <<config, now, called, nstarts>>
    /\ UNCHANGED <<archive_errors, writers>>
    /\ UNCHANGED netVars

NextPolicy ==
    \/ Start
    \/ LogReadingLong("s1", 1)
    \/ Flush
    \/ Stop

SpecPolicy == InitPolicy /\ [][NextPolicy]_vars

---------------------------------------------------------------------------
(* The Logger when an archive write can fail.                              *)

\* an archive write that fails and takes the original file with it
ArchiveFailRemoves(S, damaged) ==
    [S EXCEPT !.disk = Restrict(S.disk, DOMAIN S.disk \ {S.current_file_path})]

\* Logger._archive when zipfile raises (logger.py:117-118): os.remove is not
\* reached; damaged: the archive path was already truncated by mode 'w'
ArchiveFailOp(S, damaged) ==
    IF damaged
    THEN [S EXCEPT !.archive = (S.current_file_path :>
                                    [content |-> <<>>, mtime |-> now]) @@ S.archive]
    ELSE S

\* _rotate_if_needed would call _archive on an existing file
ArchiveDue(S) ==
    /\ ShouldRotate(S)
    /\ S.current_file_path # None
    /\ S.current_file_path \in DOMAIN S.disk

\* log_reading whose rotation fails in _archive: the exception leaves
\* log_reading after the flush
LogReadingArchiveFails(sensor_id, timestamp, frac, damaged) ==
    /\ store.current_file_path # None
    /\ Len(recorded) < MaxRecords
    /\ archive_errors < MaxArchiveErrors
    /\ LET value == (Len(recorded) + 1) * 1000 + frac
           row == MakeRow(sensor_id, timestamp, value, "u")
           S1 == [store EXCEPT !.buffer = Append(@, row)]
           S2 == FlushOp(S1)
       IN  /\ FlushDue(S1)
           /\ ArchiveDue(S2)
           /\ store' = ArchiveFailOp(S2, damaged)
           /\ recorded' = Append(recorded, row)
           /\ justFlushed' = Moved(S1.buffer, S2.buffer)
    /\ archive_errors' = archive_errors + 1
    /\ UNCHANGED <<config, now, rotlog, pruned, called, nstarts, writers>>
    /\ UNCHANGED netVars

\* stop() whose rotation fails in _archive
StopArchiveFails(damaged) ==
    /\ store.current_file_path # None
    /\ archive_errors < MaxArchiveErrors
    /\ LET S2 == CloseOp(FlushOp(store))
       IN  /\ ArchiveDue(S2)
           /\ store' = ArchiveFailOp(S2, damaged)
           /\ justFlushed' = Moved(store.buffer, S2.buffer)
    /\ archive_errors' = archive_errors + 1
    /\ called' = called \cup {"stop"}
    /\ UNCHANGED <<config, now, recorded, rotlog, pruned, nstarts, writers>>
    /\ UNCHANGED netVars

NextArch ==
    \/ NextLog
    \/ \E in \in Inputs, f \in Fractions, damaged \in BOOLEAN :
          LogReadingArchiveFails(in[1], in[2], f, damaged)
    \/ \E damaged \in BOOLEAN : StopArchiveFails(damaged)

SpecArch == InitLog /\ [][NextArch]_vars

---------------------------------------------------------------------------
(* One Logger shared by MaxWriters threads, each calling log_reading (the  *)
(* handler threads of a NetworkServer built with a logger,                 *)
(* server.py:121-133). A thread is "idle" (outside log_reading) or about   *)
(* to run: "test" (logger.py:75/80), "flush" (:85), "writerows" (:86),     *)
(* "count" (:87), "clear" (:88), "sync" (:89), "rotate" (:77/82).          *)

\* the configurations explored: flush on every row, or on every second row
ShareConfigs ==
    { [buffer_size |-> b, rotate_after_lines |-> 100, rotate_every |-> 100,
       max_size |-> 100, retention_days |-> 30] : b \in {1, 2} }

\* a Logger started on a file that holds only the header
InitShare ==
    /\ config \in ShareConfigs
    /\ now = 0
    /\ store = StartOp([InitStore EXCEPT !.disk = (FileName(0) :> <<Header>>)])
    /\ recorded = <<>>
    /\ justFlushed = <<>>
    /\ rotlog = <<>>
    /\ pruned = FALSE
    /\ called = {}
    /\ nstarts = 1
    /\ archive_errors = 0
    /\ writers = [t \in Writers |-> "idle"]
    /\ InitServer
    /\ IdleClient
    /\ IdleApp

Goto(t, pc) == writers' = [writers EXCEPT ![t] = pc]

\* logger.py:72, self.buffer.append(...)
WAppend(t, sensor_id, timestamp) ==
    /\ writers[t] = "idle"
    /\ Len(recorded) < MaxRecords
    /\ LET row == MakeRow(sensor_id, timestamp, (Len(recorded) + 1) * 1000, "u")
       IN  /\ store' = [store EXCEPT !.buffer = Append(@, row)]
           /\ recorded' = Append(recorded, row)
    /\ Goto(t, "test")
    /\ UNCHANGED <<config, now, justFlushed, rotlog, pruned, called, nstarts,
                   archive_errors>>
    /\ UNCHANGED netVars

\* logger.py:75 and :80, the two flush conditions
WTest(t) ==
    /\ writers[t] = "test"
    /\ Goto(t, IF FlushDue(store) THEN "flush" ELSE "idle")
    /\ UNCHANGED <<config, now, store, recorded, justFlushed, rotlog, pruned,
                   called, nstarts, archive_errors>>
    /\ UNCHANGED netVars

\* logger.py:85, if self.current_file and self.buffer
WFlushTest(t) ==
    /\ writers[t] = "flush"
    /\ Goto(t, IF store.current_file /\ store.buffer # <<>>
               THEN "writerows" ELSE "rotate")
    /\ UNCHANGED <<config, now, store, recorded, justFlushed, rotlog, pruned,
                   called, nstarts, archive_errors>>
    /\ UNCHANGED netVars

\* logger.py:86, self.csv_writer.writerows(self.buffer)
WWriteRows(t) ==
    /\ writers[t] = "writerows"
    /\ store' = [store EXCEPT !.pending = @ \o store.buffer]
    /\ justFlushed' = store.buffer
    /\ Goto(t, "count")
    /\ UNCHANGED <<config, now, recorded, rotlog, pruned, called, nstarts,
                   archive_errors>>
    /\ UNCHANGED netVars

\* logger.py:87, self.line_count += len(self.buffer)
WCount(t) ==
    /\ writers[t] = "count"
    /\ store' = [store EXCEPT !.line_count = @ + Len(store.buffer)]
    /\ Goto(t, "clear")
    /\ UNCHANGED <<config, now, recorded, justFlushed, rotlog, pruned, called,
                   nstarts, archive_errors>>
    /\ UNCHANGED netVars

\* logger.py:88, self.buffer.clear()
WClear(t) ==
    /\ writers[t] = "clear"
    /\ store' = [store EXCEPT !.buffer = <<>>]
    /\ Goto(t, "sync")
    /\ UNCHANGED <<config, now, recorded, justFlushed, rotlog, pruned, called,
                   nstarts, archive_errors>>
    /\ UNCHANGED netVars

\* logger.py:89, self.current_file.flush()
WSync(t) ==
    /\ writers[t] = "sync"
    /\ store' = [store EXCEPT !.disk[store.current_file_path] = @ \o store.pending,
                              !.pending = <<>>]
    /\ Goto(t, "rotate")
    /\ UNCHANGED <<config, now, recorded, justFlushed, rotlog, pruned, called,
                   nstarts, archive_errors>>
    /\ UNCHANGED netVars

\* logger.py:77 and :82, self._rotate_if_needed()
WRotate(t) ==
    /\ writers[t] = "rotate"
    /\ store' = RotateIfNeeded(store)
    /\ rotlog' = RotLogAfter(store, Len(recorded))
    /\ pruned' = PrunedAfter(store)
    /\ Goto(t, "idle")
    /\ UNCHANGED <<config, now, recorded, justFlushed, called, nstarts,
                   archive_errors>>
    /\ UNCHANGED netVars

NextShare ==
    \E t \in Writers :
        \/ \E in \in Inputs : WAppend(t, in[1], in[2])
        \/ WTest(t)
        \/ WFlushTest(t)
        \/ WWriteRows(t)
        \/ WCount(t)
        \/ WClear(t)
        \/ WSync(t)
        \/ WRotate(t)

SpecShare == InitShare /\ [][NextShare]_vars

---------------------------------------------------------------------------
(* NetworkServer: the thread running start().                              *)

SetConn(c, K) == conn' = [conn EXCEPT ![c] = K]

\* server.py:20, socket.socket(...)
SrvCreate ==
    /\ apc = "create"
    /\ server_socket' = "sock"
    /\ lsock' = "open"
    /\ apc' = "listen"
    /\ UNCHANGED <<running, acc, spc, stoppedAt, lock, registry, conn>>
    /\ UNCHANGED <<logVars, cli>>

\* server.py:21-23, setsockopt / bind / listen; an error ends start() (:58)
SrvListen ==
    /\ apc = "listen"
    /\ IF server_socket = "sock" /\ lsock = "open"
       THEN lsock' = "listening" /\ apc' = "setrun"
       ELSE lsock' = lsock /\ apc' = "exited"
    /\ UNCHANGED <<running, server_socket, acc, spc, stoppedAt, lock, registry, conn>>
    /\ UNCHANGED <<logVars, cli>>

\* server.py:24
SrvSetRunning ==
    /\ apc = "setrun"
    /\ running' = TRUE
    /\ apc' = "while"
    /\ UNCHANGED <<server_socket, lsock, acc, spc, stoppedAt, lock, registry, conn>>
    /\ UNCHANGED <<logVars, cli>>

\* server.py:30, while self.running
SrvWhile ==
    /\ apc = "while"
    /\ apc' = IF running THEN "accept" ELSE "exited"
    /\ UNCHANGED <<running, server_socket, lsock, acc, spc, stoppedAt, lock,
                   registry, conn>>
    /\ UNCHANGED <<logVars, cli>>

\* server.py:32-40, accept() returns connection c and its handler thread starts
SrvAccept(c) ==
    /\ apc = "accept"
    /\ server_socket = "sock"
    /\ lsock = "listening"
    /\ conn[c].peer \notin {"unborn", "unconnected"}
    /\ conn[c].ssock = "none"
    /\ SetConn(c, [conn[c] EXCEPT !.ssock = "open", !.hpc = "recv"])
    /\ acc' = c
    /\ apc' = "lock"
    /\ UNCHANGED <<running, server_socket, lsock, spc, stoppedAt, lock, registry>>
    /\ UNCHANGED <<logVars, cli>>

\* server.py:32 raises (the field is None, the socket is closed, or accept
\* itself fails), :50-56
SrvAcceptError ==
    /\ apc = "accept"
    /\ apc' = IF ~running /\ server_socket = "sock" THEN "exited" ELSE "while"
    /\ UNCHANGED <<running, server_socket, lsock, acc, spc, stoppedAt, lock,
                   registry, conn>>
    /\ UNCHANGED <<logVars, cli>>

\* server.py:43, with self._clients_lock
SrvLock ==
    /\ apc = "lock"
    /\ lock = "none"
    /\ lock' = "start"
    /\ apc' = "append"
    /\ UNCHANGED <<running, server_socket, lsock, acc, spc, stoppedAt, registry, conn>>
    /\ UNCHANGED <<logVars, cli>>

\* server.py:44, append and release
SrvAppend ==
    /\ apc = "append"
    /\ registry' = Append(registry, acc)
    /\ acc' = 0
    /\ lock' = "none"
    /\ apc' = "while"
    /\ UNCHANGED <<running, server_socket, lsock, spc, stoppedAt, conn>>
    /\ UNCHANGED <<logVars, cli>>

---------------------------------------------------------------------------
(* NetworkServer: the thread calling stop().                               *)

\* server.py:64
StopFlag ==
    /\ spc = "idle"
    /\ running' = FALSE
    /\ spc' = "close"
    /\ stoppedAt' = apc
    /\ UNCHANGED <<server_socket, lsock, apc, acc, lock, registry, conn>>
    /\ UNCHANGED <<logVars, cli>>

\* server.py:65-79
StopCloseServer ==
    /\ spc = "close"
    /\ IF server_socket = "sock"
       THEN lsock' = "closed" /\ server_socket' = "None"
       ELSE UNCHANGED <<lsock, server_socket>>
    /\ spc' = "lock"
    /\ UNCHANGED <<running, apc, acc, stoppedAt, lock, registry, conn>>
    /\ UNCHANGED <<logVars, cli>>

\* server.py:82, with self._clients_lock
StopLock ==
    /\ spc = "lock"
    /\ lock = "none"
    /\ lock' = "stop"
    /\ spc' = "closeall"
    /\ UNCHANGED <<running, server_socket, lsock, apc, acc, stoppedAt, registry, conn>>
    /\ UNCHANGED <<logVars, cli>>

\* server.py:83-92, shutdown and close every tracked socket, clear, release
StopCloseAll ==
    /\ spc = "closeall"
    /\ conn' = [c \in Conns |->
                  IF c \in SeqRange(registry) /\ conn[c].ssock = "open"
                  THEN [conn[c] EXCEPT !.ssock = "closed_by_stop"]
                  ELSE conn[c]]
    /\ registry' = <<>>
    /\ lock' = "none"
    /\ spc' = "done"
    /\ UNCHANGED <<running, server_socket, lsock, apc, acc, stoppedAt>>
    /\ UNCHANGED <<logVars, cli>>

---------------------------------------------------------------------------
(* NetworkServer._handle_client, one thread per connection.                *)

\* server.py:102, recv returns n bytes, returns b"" or raises
HRecv(c, n) ==
    /\ conn[c].hpc = "recv"
    /\ \/ conn[c].ssock # "open"
       \/ conn[c].peer \in {"closed", "reset"}
       \/ conn[c].wire # <<>>
    /\ n \in 1..Len(conn[c].wire) \/ (n = 0 /\ conn[c].wire = <<>>)
    /\ SetConn(c, HandlerRecv(conn[c], n))
    /\ UNCHANGED srvVars
    /\ UNCHANGED <<logVars, cli>>

\* server.py:102 raises socket.timeout: nothing arrived for the idle timeout
HTimeout(c) ==
    /\ conn[c].hpc = "recv"
    /\ conn[c].ssock = "open"
    /\ conn[c].peer = "open"
    /\ conn[c].wire = <<>>
    /\ SetConn(c, [conn[c] EXCEPT !.hpc = "finally", !.hend = "timeout"])
    /\ UNCHANGED srvVars
    /\ UNCHANGED <<logVars, cli>>

\* server.py:110-137
HLine(c) ==
    /\ conn[c].hpc = "lines"
    /\ SetConn(c, HandlerLine(conn[c]))
    /\ UNCHANGED srvVars
    /\ UNCHANGED <<logVars, cli>>

\* a handler that enters its critical section without waiting for the lock
HLockNoWait(c) ==
    /\ conn[c].hpc = "finally"
    /\ lock' = "handler"
    /\ SetConn(c, [conn[c] EXCEPT !.hpc = "unreg"])
    /\ UNCHANGED <<running, server_socket, lsock, apc, acc, spc, stoppedAt, registry>>
    /\ UNCHANGED <<logVars, cli>>

\* server.py:147, with self._clients_lock
HLock(c) ==
    /\ conn[c].hpc = "finally"
    /\ lock = "none"
    /\ lock' = "handler"
    /\ SetConn(c, [conn[c] EXCEPT !.hpc = "unreg"])
    /\ UNCHANGED <<running, server_socket, lsock, apc, acc, spc, stoppedAt, registry>>
    /\ UNCHANGED <<logVars, cli>>

\* server.py:148-149, remove from the list if present, release
HUnregister(c) ==
    /\ conn[c].hpc = "unreg"
    /\ registry' = SelectSeq(registry, LAMBDA x : x # c)
    /\ lock' = "none"
    /\ SetConn(c, [conn[c] EXCEPT !.hpc = "close"])
    /\ UNCHANGED <<running, server_socket, lsock, apc, acc, spc, stoppedAt>>
    /\ UNCHANGED <<logVars, cli>>

\* a handler whose exit closes the socket of every connection
HCloseAll(c) ==
    /\ conn[c].hpc = "close"
    /\ conn' = [d \in Conns |->
                  [conn[d] EXCEPT
                     !.hpc = IF d = c THEN "done" ELSE @,
                     !.ssock = IF @ = "open" THEN "closed_by_handler" ELSE @]]
    /\ UNCHANGED srvVars
    /\ UNCHANGED <<logVars, cli>>

\* server.py:150-153
HClose(c) ==
    /\ conn[c].hpc = "close"
    /\ SetConn(c, [conn[c] EXCEPT
                     !.hpc = "done",
                     !.ssock = IF @ = "open" THEN "closed_by_handler" ELSE @])
    /\ UNCHANGED srvVars
    /\ UNCHANGED <<logVars, cli>>

---------------------------------------------------------------------------
(* Clients that write lines without reading the acknowledgements.          *)

\* a client connects (the listener's backlog takes the connection)
CConnect(c) ==
    /\ conn[c].peer = "unborn"
    /\ \A d \in 1..(c - 1) : conn[d].peer # "unborn"
    /\ lsock = "listening"
    /\ SetConn(c, [conn[c] EXCEPT !.peer = "open"])
    /\ UNCHANGED srvVars
    /\ UNCHANGED <<logVars, cli>>

\* a client writes one line (at most `limit` lines on a connection)
CSend(c, line, limit) ==
    /\ conn[c].peer = "open"
    /\ Len(conn[c].sent) < limit
    /\ SetConn(c, [conn[c] EXCEPT !.wire = @ \o line.bytes,
                                  !.sent = Append(@, line)])
    /\ UNCHANGED srvVars
    /\ UNCHANGED <<logVars, cli>>

\* a client closes its socket
CClose(c) ==
    /\ conn[c].peer = "open"
    /\ SetConn(c, [conn[c] EXCEPT !.peer = "closed"])
    /\ UNCHANGED srvVars
    /\ UNCHANGED <<logVars, cli>>

\* the connection is reset
CReset(c) ==
    /\ conn[c].peer \in {"open", "closed"}
    /\ SetConn(c, [conn[c] EXCEPT !.peer = "reset", !.wire = <<>>])
    /\ UNCHANGED srvVars
    /\ UNCHANGED <<logVars, cli>>

---------------------------------------------------------------------------
(* NetworkClient. The record cli holds                                     *)
(*   socket       self.socket: 0 for None, else the connection it names    *)
(*   retries      self.retries                                             *)
(*   pc           where send() is: "idle" (not in send), "loop", "recv",   *)
(*                "sleep"                                                  *)
(*   data         the payload of the running send()                        *)
(*   retry_count  the local of send()                                      *)
(* and history: ends (how each attempt of the running send() ended),       *)
(* sleeps (the durations it slept), returned (one entry per finished       *)
(* send(): payload, result, whether it got to the loop, ends, sleeps),     *)
(* replaced (how often connect() replaced a connected socket).             *)

\* client.py:78, the cap of the backoff
BackoffCap == 5

Min(a, b) == IF a < b THEN a ELSE b

HasFree == \E c \in Conns : conn[c].peer = "unborn"

FreeConn == CHOOSE c \in Conns :
              conn[c].peer = "unborn" /\ \A d \in 1..(c - 1) : conn[d].peer # "unborn"

\* NetworkClient.connect: the endpoint of a new socket after connect()
Connected == IF lsock = "listening" THEN "open" ELSE "unconnected"

\* the line sendall writes for payload p
PayloadLine(p) == [bytes |-> Serialize(p), kind |-> "json"]

\* send() returns
Return(C, ok, entered) ==
    [C EXCEPT !.pc = "idle",
              !.returned = Append(@, [data |-> C.data, ok |-> ok, entered |-> entered,
                                      ends |-> C.ends, sleeps |-> C.sleeps])]

\* client.py:39-43, send(p) up to the loop; connect() when there is no socket
CliSend(p) ==
    /\ cli.pc = "idle"
    /\ Len(cli.returned) < MaxCalls
    /\ p = Len(cli.returned) + 1
    /\ LET C == [cli EXCEPT !.data = p, !.retry_count = 0, !.ends = <<>>,
                            !.sleeps = <<>>]
       IN  IF cli.socket # 0
           THEN /\ cli' = [C EXCEPT !.pc = "loop"]
                /\ UNCHANGED conn
           ELSE /\ HasFree
                /\ SetConn(FreeConn, [conn[FreeConn] EXCEPT !.peer = Connected])
                /\ cli' = IF Connected = "open"
                          THEN [C EXCEPT !.socket = FreeConn, !.pc = "loop"]
                          ELSE Return([C EXCEPT !.socket = FreeConn], FALSE, FALSE)
    /\ UNCHANGED srvVars
    /\ UNCHANGED logVars

\* a transport error handled without close() and connect()
CliErrorKeepsSocket(C) ==
    /\ cli' = [C EXCEPT !.ends = Append(@, "error"), !.pc = "sleep"]
    /\ UNCHANGED conn

\* client.py:66-75, except Exception: close() and connect()
CliError(C) ==
    /\ HasFree
    /\ conn' = [conn EXCEPT ![C.socket].peer = IF @ = "open" THEN "closed" ELSE @,
                            ![FreeConn].peer = Connected]
    /\ cli' = [C EXCEPT !.socket = FreeConn, !.ends = Append(@, "error"),
                        !.pc = "sleep"]

\* client.py:44-48, the loop test and sendall; on a connection the listener
\* has closed the write is lost or raises
CliAttempt(raises) ==
    /\ cli.pc = "loop"
    /\ LET K == conn[cli.socket]
       IN  IF cli.retry_count < cli.retries
           THEN IF K.peer = "open" /\ K.ssock \in {"none", "open"}
                THEN /\ ~raises
                     /\ SetConn(cli.socket,
                                [K EXCEPT !.wire = @ \o Serialize(cli.data),
                                          !.sent = Append(@, PayloadLine(cli.data))])
                     /\ cli' = [cli EXCEPT !.pc = "recv"]
                ELSE IF K.peer = "open" /\ ~raises
                     THEN /\ cli' = [cli EXCEPT !.pc = "recv"]
                          /\ UNCHANGED conn
                     ELSE /\ raises
                          /\ CliError(cli)
           ELSE /\ ~raises
                /\ cli' = Return(cli, FALSE, TRUE)
                /\ UNCHANGED conn
    /\ UNCHANGED srvVars
    /\ UNCHANGED logVars

\* client.py:54-65, recv(1024) returns n acknowledgement tokens (n = 0: the
\* listener closed the connection), times out or raises
CliRecv(n, raises) ==
    /\ cli.pc = "recv"
    /\ LET K == conn[cli.socket]
       IN  IF K.unread > 0
           THEN /\ ~raises
                /\ n \in 1..K.unread
                /\ SetConn(cli.socket, [K EXCEPT !.unread = @ - n])
                /\ cli' = IF n = 1
                          THEN Return([cli EXCEPT !.ends = Append(@, "ack")], TRUE, TRUE)
                          ELSE [cli EXCEPT !.ends = Append(@, "invalid_ack"),
                                           !.pc = "sleep"]
           ELSE /\ n = 0
                /\ IF K.ssock \in {"none", "open"}
                   THEN /\ ~raises
                        /\ cli' = [cli EXCEPT !.ends = Append(@, "timeout"),
                                              !.pc = "sleep"]
                        /\ UNCHANGED conn
                   ELSE IF raises
                        THEN CliError(cli)
                        ELSE /\ cli' = [cli EXCEPT !.ends = Append(@, "invalid_ack"),
                                                   !.pc = "sleep"]
                             /\ UNCHANGED conn
    /\ UNCHANGED srvVars
    /\ UNCHANGED logVars

\* a sleep that does not count the attempt
CliSleepNoCount ==
    /\ cli.pc = "sleep"
    /\ cli' = [cli EXCEPT !.sleeps = Append(@, Min(cli.retry_count + 1, BackoffCap)),
                          !.pc = "loop"]
    /\ UNCHANGED <<srvVars, conn>>
    /\ UNCHANGED logVars

\* client.py:77-78
CliSleep ==
    /\ cli.pc = "sleep"
    /\ cli' = [cli EXCEPT !.retry_count = @ + 1,
                          !.sleeps = Append(@, Min(cli.retry_count + 1, BackoffCap)),
                          !.pc = "loop"]
    /\ UNCHANGED <<srvVars, conn>>
    /\ UNCHANGED logVars

\* a close() that keeps the socket when socket.close() raises
CloseKeepsOnError(C, raises) ==
    IF C.socket # 0 /\ ~raises THEN [C EXCEPT !.socket = 0] ELSE C

\* NetworkClient.close on the client's fields; raises: socket.close() raises
\* (caught at client.py:88, the finally at :91 runs either way)
CloseClient(C, raises) ==
    IF C.socket # 0 THEN [C EXCEPT !.socket = 0] ELSE C

\* NetworkClient.close on the connections N
CloseConns(C, N) ==
    IF C.socket # 0
    THEN [N EXCEPT ![C.socket].peer = IF @ = "open" THEN "closed" ELSE @]
    ELSE N

\* client.py:82-92, the application calls close(), with or without a socket
CliClose(raises) ==
    /\ cli.pc = "idle"
    /\ cli' = CloseClient(cli, raises)
    /\ conn' = CloseConns(cli, conn)
    /\ UNCHANGED srvVars
    /\ UNCHANGED logVars

\* connect() that keeps the socket it replaces open
ConnectLeaksOld(C, N) == [N EXCEPT ![FreeConn].peer = Connected]

\* NetworkClient.connect on the connections N: line 25 rebinds self.socket,
\* which drops the only reference to the socket held before, and the
\* interpreter closes a socket object when its last reference goes
\* (reference counting); line 27 connects the new socket
ConnectConns(C, N) ==
    [N EXCEPT ![FreeConn].peer = Connected,
              ![IF C.socket # 0 THEN C.socket ELSE FreeConn].peer =
                  IF C.socket # 0 /\ @ = "open" THEN "closed"
                  ELSE IF C.socket # 0 THEN @ ELSE Connected]

\* client.py:23-36, the application calls connect(), with or without a
\* socket
CliConnect ==
    /\ cli.pc = "idle"
    /\ HasFree
    /\ conn' = ConnectConns(cli, conn)
    /\ cli' = [cli EXCEPT !.socket = FreeConn,
                          !.replaced = IF cli.socket # 0 /\ conn[cli.socket].peer = "open"
                                       THEN @ + 1 ELSE @]
    /\ UNCHANGED srvVars
    /\ UNCHANGED logVars

\* Logger state of a process that does not log
IdleLog ==
    /\ config = [buffer_size |-> 100, rotate_after_lines |-> 100,
                 rotate_every |-> TicksPerDay, max_size |-> 100,
                 retention_days |-> 30]
    /\ now = 0
    /\ store = InitStore
    /\ recorded = <<>>
    /\ justFlushed = <<>>
    /\ rotlog = <<>>
    /\ pruned = FALSE
    /\ called = {}
    /\ nstarts = 0
    /\ archive_errors = 0
    /\ writers = [t \in Writers |-> "idle"]

ServerStep ==
    \/ SrvCreate
    \/ SrvListen
    \/ SrvSetRunning
    \/ SrvWhile
    \/ \E c \in Conns : SrvAccept(c)
    \/ SrvAcceptError
    \/ SrvLock
    \/ SrvAppend

StopStep ==
    \/ StopFlag
    \/ StopCloseServer
    \/ StopLock
    \/ StopCloseAll

HandlerExit(c) ==
    \/ HLock(c)
    \/ HUnregister(c)
    \/ HClose(c)

(* The listener with MaxConns concurrent clients and a concurrent stop();  *)
(* every recv returns all the bytes that have arrived.                     *)
SrvLines == {JsonLine}

InitSrv == IdleLog /\ InitServer /\ IdleClient /\ IdleApp

NextSrv ==
    \/ ServerStep
    \/ StopStep
    \/ \E c \in Conns :
         \/ HRecv(c, Len(conn[c].wire))
         \/ HTimeout(c)
         \/ HLine(c)
         \/ HandlerExit(c)
         \/ CConnect(c)
         \/ \E line \in SrvLines : CSend(c, line, MaxStopMsgs)
         \/ CClose(c)

SpecSrv == InitSrv /\ [][NextSrv]_vars

(* The listener that keeps running, with MaxConns concurrent clients.      *)
NextRun ==
    \/ ServerStep
    \/ \E c \in Conns :
         \/ HRecv(c, Len(conn[c].wire))
         \/ HTimeout(c)
         \/ HLine(c)
         \/ HandlerExit(c)
         \/ CConnect(c)
         \/ \E line \in SrvLines : CSend(c, line, MaxMsgs)
         \/ CClose(c)

SpecRun == InitSrv /\ [][NextRun]_vars

(* One connection to a listener that keeps running, the byte stream        *)
(* delivered in arbitrary pieces.                                          *)
FrameLines == {JsonLine, PaddedLine, GarbageLine, EmptyLine, BadUtf8Line}

NextFrame ==
    \/ ServerStep
    \/ \E n \in 0..(3 * MaxMsgs) : HRecv(1, n)
    \/ HTimeout(1)
    \/ HLine(1)
    \/ HandlerExit(1)
    \/ CConnect(1)
    \/ \E line \in FrameLines : CSend(1, line, MaxMsgs)
    \/ CClose(1)
    \/ CReset(1)

SpecFrame == InitSrv /\ [][NextFrame]_vars

(* One connection whose client writes whole lines and pieces of lines, the *)
(* byte stream delivered in arbitrary pieces.                              *)
ChunkWrites == {JsonLine, PaddedLine, GarbageLine, BadUtf8Line, PartialWrite}

NextChunk ==
    \/ ServerStep
    \/ \E n \in 0..(3 * MaxMsgs) : HRecv(1, n)
    \/ HTimeout(1)
    \/ HLine(1)
    \/ HandlerExit(1)
    \/ CConnect(1)
    \/ \E line \in ChunkWrites : CSend(1, line, MaxMsgs)
    \/ CClose(1)

SpecChunk == InitSrv /\ [][NextChunk]_vars

(* MaxConns concurrent connections to a listener that keeps running; each  *)
(* can be closed or reset, the first one carries MaxStopMsgs lines that    *)
(* can be malformed, the others MaxMsgs messages.                          *)
IsoLines(c) == IF c = 1 THEN FrameLines ELSE SrvLines

IsoLimit(c) == IF c = 1 THEN MaxStopMsgs ELSE MaxMsgs

NextIso ==
    \/ ServerStep
    \/ \E c \in Conns :
         \/ HRecv(c, Len(conn[c].wire))
         \/ HTimeout(c)
         \/ HLine(c)
         \/ HandlerExit(c)
         \/ CConnect(c)
         \/ \E line \in IsoLines(c) : CSend(c, line, IsoLimit(c))
         \/ CClose(c)
         \/ CReset(c)

SpecIso == InitSrv /\ [][NextIso]_vars

(* A NetworkClient and the listener, which keeps running.                  *)
RetryChoices == {0, 1, 3}

InitNet ==
    /\ IdleLog
    /\ InitServer
    /\ IdleApp
    /\ \E r \in RetryChoices : cli = NewClient(r)

NextNet ==
    \/ ServerStep
    \/ \E c \in Conns :
         \/ HRecv(c, Len(conn[c].wire))
         \/ HTimeout(c)
         \/ HLine(c)
         \/ HandlerExit(c)
    \/ \E p \in 1..MaxCalls : CliSend(p)
    \/ \E raises \in BOOLEAN : CliAttempt(raises)
    \/ \E n \in 0..MaxCalls, raises \in BOOLEAN : CliRecv(n, raises)
    \/ CliSleep
    \/ \E raises \in BOOLEAN : CliClose(raises)

SpecNet == InitNet /\ [][NextNet]_vars

(* A NetworkClient whose application also calls connect() itself.          *)
InitCli ==
    /\ IdleLog
    /\ InitServer
    /\ IdleApp
    /\ cli = NewClient(ConnectRetries)

NextCli ==
    \/ NextNet
    \/ CliConnect

SpecCli == InitCli /\ [][NextCli]_vars

---------------------------------------------------------------------------
(* run_client of main.py, the reference caller of the NetworkClient. The   *)
(* result of each connect() and send() is an input.                       *)

\* what run_client leaves alone
AppFrame ==
    /\ UNCHANGED <<config, now, store, recorded, justFlushed, rotlog, pruned,
                   called, nstarts, archive_errors, writers>>
    /\ UNCHANGED <<srvVars, conn, cli>>

\* main.py:49-51, connect() before the loop; on failure run_client returns
AppConnect(ok) ==
    /\ app.pc = "connect"
    /\ app' = IF ok
              THEN [app EXCEPT !.pc = "send", !.connector = "connected"]
              ELSE [app EXCEPT !.pc = "returned", !.connector = "failed"]
    /\ AppFrame

\* main.py:62-83, one send() and the bookkeeping of its result
AppSend(ok) ==
    /\ app.pc = "send"
    /\ Len(app.results) < MaxSends
    /\ ok \in SendResults(app.retries)
    /\ app' = AfterSend(app, ok)
    /\ AppFrame

\* main.py:85-86, time.sleep(interval) and the next iteration
AppSleep ==
    /\ app.pc = "sleep"
    /\ app' = [app EXCEPT !.pc = "send"]
    /\ AppFrame

\* main.py:87-88, KeyboardInterrupt inside the loop
AppInterrupt ==
    /\ app.pc \in {"send", "sleep"}
    /\ app' = [app EXCEPT !.pc = "finally", !.cause = "interrupt"]
    /\ AppFrame

\* main.py:89-90, finally: client.close()
AppClose ==
    /\ app.pc = "finally"
    /\ app' = [app EXCEPT !.pc = "done", !.connector = "closed"]
    /\ AppFrame

InitApp ==
    /\ IdleLog
    /\ InitServer
    /\ IdleClient
    /\ \E r \in RetryChoices : app = NewApp(r)

NextApp ==
    \/ \E ok \in BOOLEAN : AppConnect(ok)
    \/ \E ok \in BOOLEAN : AppSend(ok)
    \/ AppSleep
    \/ AppInterrupt
    \/ AppClose

SpecApp == InitApp /\ [][NextApp]_vars

---------------------------------------------------------------------------
(* Properties of the listener.                                             *)

\* how many of the first n lines decode as JSON
RECURSIVE JsonCount(_, _)
JsonCount(lines, n) ==
    IF n = 0 THEN 0
    ELSE JsonCount(lines, n - 1) + (IF lines[n].kind = "json" THEN 1 ELSE 0)

Reading(K) == K.hpc \in {"recv", "lines"}

\* C4: on every connection the number of ACKs written equals the number of
\* successfully parsed messages, at every point.
C4_AcksEqualParsed ==
    \A c \in Conns : conn[c].acks = Len(conn[c].decoded)

\* C4 as amended: the handler parses exactly the complete lines that decode
\* as JSON and writes an ACK for nothing else; the ACKs written equal the
\* parsed messages while the handler is reading, and fall short by one only
\* when the ACK write failed on a closed or reset socket, which ends the
\* handler.
C4_AcksEqualParsedUnlessWriteFails ==
    \A c \in Conns :
        LET K == conn[c]
        IN  /\ Len(K.decoded) = JsonCount(K.sent, K.nlines)
            /\ K.acks <= Len(K.decoded)
            /\ Len(K.decoded) <= K.acks + 1
            /\ Reading(K) => K.acks = Len(K.decoded)
            /\ K.acks # Len(K.decoded) => K.hend = "OSError"

\* a malformed line got no ACK, a well-formed one got its ACK, handler reading
C4_Witness ==
    \E c \in Conns :
        /\ conn[c].nlines = 2
        /\ conn[c].acks = 1
        /\ Len(conn[c].decoded) = 1
        /\ conn[c].hpc = "recv"

\* C7: once a stop() called on a running listener has returned, every
\* accepted socket is closed (by stop() or by its handler, which is then on
\* its way out) so that no handler is left to wait for its idle timeout, and
\* the accept loop is on its way out.
C7_StopEndsEveryHandler ==
    (spc = "done" /\ stoppedAt \in {"while", "accept", "lock", "append"}) =>
        /\ \A c \in Conns :
              (conn[c].ssock = "open" /\ conn[c].peer = "open")
                  => conn[c].hpc \in {"finally", "unreg", "close"}
        /\ apc = "while" => ~running
        /\ apc = "accept" => server_socket = "None"

\* C8: while the listener keeps running, each connection carrying well-formed
\* messages gets exactly one ACK per message, on that connection: M for M
\* messages once they are read, N x M in total.
RECURSIVE TotalAcks(_)
TotalAcks(n) == IF n = 0 THEN 0 ELSE TotalAcks(n - 1) + conn[n].acks

RECURSIVE TotalSent(_)
TotalSent(n) == IF n = 0 THEN 0 ELSE TotalSent(n - 1) + Len(conn[n].sent)

Drained(K) == K.ssock # "none" /\ K.wire = <<>> /\ K.hpc # "lines"

C8_OneAckPerMessage ==
    /\ \A c \in Conns :
          LET K == conn[c]
          IN  /\ K.acks = K.nlines
              /\ K.unread = K.acks
              /\ K.decoded = [i \in 1..K.acks |-> 1]
              /\ K.acks <= Len(K.sent)
              /\ Drained(K) => K.acks = Len(K.sent)
    /\ (\A c \in Conns : Drained(conn[c])) => TotalAcks(MaxConns) = TotalSent(MaxConns)

\* every client has sent MaxMsgs messages, all handlers alive, all ACKs written
C8_Witness ==
    /\ \A c \in Conns : Len(conn[c].sent) = MaxMsgs /\ conn[c].hpc = "recv"
    /\ TotalAcks(MaxConns) = MaxConns * MaxMsgs

\* C9: a line that cannot be decoded gets no ACK and leaves the handler
\* reading on an open connection, and every well-formed line read on the
\* connection is acknowledged.
C9_MalformedLineSkipped ==
    \A c \in Conns :
        LET K == conn[c]
        IN  K.hend \notin {"eof", "timeout", "OSError"} =>
              /\ K.acks = JsonCount(K.sent, K.nlines)
              /\ (K.nlines >= 1 /\ K.sent[K.nlines].kind = "malformed")
                    => (Reading(K) /\ K.ssock = "open")

\* the value a well-formed line carries
LineValue(line) == IF line = PaddedLine THEN 2 ELSE 1

\* the values of the well-formed lines among the first n lines, in order
RECURSIVE JsonValues(_, _)
JsonValues(lines, n) ==
    IF n = 0 THEN <<>>
    ELSE IF lines[n].kind = "json"
         THEN Append(JsonValues(lines, n - 1), LineValue(lines[n]))
         ELSE JsonValues(lines, n - 1)

\* C16: on a connection the messages parsed are, in order, the well-formed
\* lines in the order they were written, whatever the chunking of the byte
\* stream, and the i-th ACK is written after the i-th parsed message and
\* before the next one is parsed.
C16_ProcessedInOrderReceived ==
    \A c \in Conns :
        LET K == conn[c]
        IN  /\ K.decoded = JsonValues(K.sent, K.nlines)
            /\ K.acks \in {Len(K.decoded) - 1, Len(K.decoded)}
            /\ K.hbuf \o K.wire # <<>> => K.nlines < Len(K.sent)

\* two different messages parsed and acknowledged in the order written
C16_Witness ==
    \E c \in Conns :
        /\ conn[c].sent = <<PaddedLine, JsonLine>>
        /\ conn[c].decoded = <<2, 1>>
        /\ conn[c].acks = 2

\* C17: a handler that has terminated has closed its socket and the registry
\* does not hold it, whatever the interleaving with the accept loop.
C17_NoExitedHandlerRegistered ==
    \A c \in Conns :
        conn[c].hpc = "done" =>
            /\ conn[c].ssock # "open"
            /\ \A i \in 1..Len(registry) : registry[i] # c

---------------------------------------------------------------------------
(* Properties of the NetworkClient.                                        *)

Range(f) == {f[i] : i \in DOMAIN f}

\* payloads the listener has parsed and acknowledged, on any connection
Processed ==
    UNION {{conn[c].decoded[i] : i \in 1..conn[c].acks} : c \in Conns}

\* C2: whenever send(p) has returned success, the listener has received,
\* parsed and acknowledged payload p itself.
C2_SuccessMeansProcessed ==
    \A r \in Range(cli.returned) : r.ok => r.data \in Processed

\* C3: with retries = 0 a send() that reached the attempt loop has made
\* exactly one send attempt, and it returned success if that attempt was
\* answered by an acknowledgement.
C3_ZeroRetriesOneAttempt ==
    cli.retries = 0 =>
        \A r \in Range(cli.returned) :
            r.entered => (Len(r.ends) = 1 /\ (r.ends[1] = "ack" => r.ok))

\* C5: with retries = 3, a send() whose attempts all timed out made exactly 3
\* attempts, returned failure, and slept only between the attempts: 1, then 2.
C5_SleepsOnlyBetweenAttempts ==
    cli.retries = 3 =>
        \A r \in Range(cli.returned) :
            (r.entered /\ \A i \in 1..Len(r.ends) : r.ends[i] = "timeout") =>
                /\ Len(r.ends) = 3
                /\ ~r.ok
                /\ r.sleeps = <<1, 2>>

\* C15: close() called between two send() calls, in any state of the client
\* (no socket, connected, after a failed connect, already closed), raises
\* nothing, leaves no socket held and nothing else changed, closes the
\* client's end of the connection, and a second close() changes nothing.
C15_CloseSafeAndIdempotent ==
    cli.pc = "idle" =>
        \A raises \in BOOLEAN, again \in BOOLEAN :
            LET C1 == CloseClient(cli, raises)
                N1 == CloseConns(cli, conn)
            IN  /\ C1 = [cli EXCEPT !.socket = 0]
                /\ cli.socket # 0 => N1[cli.socket].peer # "open"
                /\ \A c \in Conns : c # cli.socket => N1[c] = conn[c]
                /\ CloseClient(C1, again) = C1
                /\ CloseConns(C1, N1) = N1

\* close() has been called after a failed connect and after a send()
C15_Witness ==
    /\ cli.socket = 0
    /\ cli.pc = "idle"
    /\ \E c \in Conns : conn[c].peer = "unconnected"
    /\ \E c \in Conns : conn[c].peer = "closed"

\* C20: an attempt of send() that fails is followed by a close() and a fresh
\* connect() exactly when it ended in a transport error; after a timeout or a
\* response that is not the acknowledgement the socket is kept, and it is the
\* socket the next attempt uses.
C20_ReconnectOnlyOnTransportError ==
    [][ /\ (Len(cli'.ends) = Len(cli.ends) + 1 /\ cli'.pc = "sleep") =>
              LET e == cli'.ends[Len(cli'.ends)]
              IN  /\ (e = "error") <=> (cli'.socket # cli.socket)
                  /\ e = "error" =>
                        /\ conn'[cli.socket].peer # "open"
                        /\ conn[cli'.socket].peer = "unborn"
                        /\ conn'[cli'.socket].peer \in {"open", "unconnected"}
                  /\ e # "error" =>
                        /\ e \in {"timeout", "invalid_ack"}
                        /\ conn'[cli.socket].peer = conn[cli.socket].peer
        /\ cli.pc = "sleep" => cli'.socket = cli.socket ]_vars

\* one send(): an attempt timed out on the first socket, a later one met a
\* transport error and the client is on a second socket
C20_Witness ==
    /\ cli.socket = 2
    /\ \E i \in 1..Len(cli.ends) : cli.ends[i] = "timeout"
    /\ \E i \in 1..Len(cli.ends) : cli.ends[i] = "error"
    /\ conn[1].peer = "closed"

---------------------------------------------------------------------------
(* Properties of the Logger.                                               *)

\* the rows that have left the buffer, in the order they were recorded
Flushed == SubSeq(recorded, 1, Len(recorded) - Len(store.buffer))

\* every line other than the header held by a live file or by an archive
DataLines(lines) ==
    {lines[i] : i \in {j \in 1..Len(lines) : lines[j][2] # Header[2]}}

PersistedRows ==
    UNION ( {DataLines(store.disk[f]) : f \in DOMAIN store.disk}
            \cup {DataLines(store.archive[a].content) : a \in DOMAIN store.archive} )

QueryBounds == 0..3

\* C1: as long as no archive has been pruned, every reading that was flushed
\* is returned by a query whose interval covers its timestamp, whatever the
\* number of rotations (also rotations that reuse one active file name).
C1_FlushedStaysQueryable ==
    ~pruned =>
        \A i \in 1..Len(Flushed) :
            RowReading(Flushed[i]) \in
                ReadLogs(store, FromIsoFormat(Flushed[i][1]),
                         FromIsoFormat(Flushed[i][1]), NoFilter)

\* C6: with buffer_size = 2 and rotate_after_lines = 4 on a store started on
\* no pre-existing file, recording one reading at a time rotates exactly at
\* the 2nd flush (4 rows persisted), and the archive holds the header plus
\* those 4 rows.
C6_RotatesAtSecondFlush ==
    ( /\ config.buffer_size = 2
      /\ config.rotate_after_lines = 4
      /\ called = {}
      /\ nstarts = 1 )
    => IF Len(recorded) < 4
       THEN rotlog = <<>>
       ELSE /\ rotlog # <<>>
            /\ rotlog[1] = [records |-> 4,
                            content |-> <<Header>> \o SubSeq(recorded, 1, 4)]

\* C10: a query returns exactly the matching rows of the live files and the
\* archives; a reading still in the buffer is absent from it, and the rows
\* the last operation flushed are present in it.
C10_QueryUnionAndVisibility ==
    /\ \A s \in QueryBounds, e \in QueryBounds :
          ReadLogs(store, s, e, NoFilter) =
            {RowReading(r) : r \in {x \in PersistedRows :
                                        /\ s <= FromIsoFormat(x[1])
                                        /\ FromIsoFormat(x[1]) <= e}}
    /\ \A i \in 1..Len(store.buffer) :
          RowReading(store.buffer[i]) \notin ReadLogs(store, 0, 3, NoFilter)
    /\ \A i \in 1..Len(justFlushed) :
          RowReading(justFlushed[i]) \in
              ReadLogs(store, FromIsoFormat(justFlushed[i][1]),
                       FromIsoFormat(justFlushed[i][1]), NoFilter)

\* a reading waits in the buffer while a live file and an archive hold rows
C10_Witness ==
    /\ store.buffer # <<>>
    /\ \E f \in DOMAIN store.disk : Len(store.disk[f]) > 1
    /\ \E a \in DOMAIN store.archive : Len(store.archive[a].content) > 1

\* the last n rows recorded
LastRecorded(n) == SubSeq(recorded, Len(recorded) - n + 1, Len(recorded))

\* C11: with buffer_size = 2 and an open active file, when readings are only
\* recorded one at a time, after an odd-numbered record the buffer holds that
\* one row, unpersisted, and nothing was written; after an even-numbered
\* record the buffer is empty and the last two rows are persisted.
C11_FlushEverySecondRecord ==
    (config.buffer_size = 2 /\ called = {} /\ store.current_file) =>
        /\ store.buffer = LastRecorded(Len(recorded) % 2)
        /\ \A i \in 1..Len(store.buffer) : store.buffer[i] \notin PersistedRows
        /\ Len(recorded) % 2 = 1 => justFlushed = <<>>
        /\ (Len(recorded) % 2 = 0 /\ Len(recorded) > 0) =>
              /\ justFlushed = LastRecorded(2)
              /\ \A i \in 1..2 : justFlushed[i] \in PersistedRows

\* three rows recorded: two persisted by the flush of the 2nd, one buffered
C11_Witness ==
    /\ config.buffer_size = 2
    /\ called = {}
    /\ Len(recorded) = 3
    /\ Len(store.buffer) = 1
    /\ recorded[1] \in PersistedRows
    /\ recorded[2] \in PersistedRows

\* C12: a rotation leaves no archive whose last-modified time is older than
\* retention_days (whatever the fraction of a day by which it is older), and
\* keeps every archive modified within the retention window.
C12_PrunesEveryOlderArchive ==
    [][Len(rotlog') > Len(rotlog) =>
          /\ \A a \in DOMAIN store'.archive :
                now - store'.archive[a].mtime <= config.retention_days * TicksPerDay
          /\ \A a \in DOMAIN store.archive :
                now - store.archive[a].mtime <= config.retention_days * TicksPerDay
                    => a \in DOMAIN store'.archive]_vars

\* C18: while a file is open the row counter is not negative and equals the
\* number of data rows written to the active file (its lines minus the
\* header; 0 for a file start() has just created).
C18_RowCounterMatchesFile ==
    store.current_file =>
        /\ store.line_count >= 0
        /\ store.line_count =
              Len(store.disk[store.current_file_path]) + Len(store.pending) - 1

\* C19: when stop() returns the buffer is empty, every row that was buffered
\* is persisted, and the store holds no open file handle, whether or not the
\* final rotation check rotated.
C19_StopLeavesNoOpenFile ==
    [][Stop =>
          /\ store'.buffer = <<>>
          /\ \A i \in 1..Len(store.buffer) : store.buffer[i] \in PersistedRows'
          /\ ~store'.current_file]_vars

\* C13: when the archive write of a rotation fails, the original file is
\* still on disk with the rows it held and the rows just flushed, the
\* rotation has gone no further (no archive recorded, no new file started),
\* and the file is still due for the next rotation attempt.
C13_FailedArchiveKeepsOriginal ==
    [][archive_errors' > archive_errors =>
          LET path == store.current_file_path
              was == store.disk[path] \o store.pending
          IN  /\ store'.current_file_path = path
              /\ path \in DOMAIN store'.disk
              /\ store'.disk[path] = was \o justFlushed'
              /\ rotlog' = rotlog
              /\ store'.last_rotation_time = store.last_rotation_time
              /\ ArchiveDue(store')]_vars

\* an archive write has failed and no rotation has happened: the file with
\* its rows is on disk and due for rotation
C13_Witness ==
    /\ archive_errors = 1
    /\ rotlog = <<>>
    /\ ArchiveDue(store)
    /\ Len(store.disk[store.current_file_path]) > 1

\* the rows written to the active file (on disk or still in its handle),
\* after its header line
Written == Tail(store.disk[store.current_file_path] \o store.pending)

Occurrences(row, lines) == Cardinality({i \in 1..Len(lines) : lines[i] = row})

\* C14: when several threads share the Logger and none of them is inside
\* log_reading, every recorded row is in the log exactly once (written once,
\* or still waiting in the buffer) and the row counter equals the number of
\* rows written.
C14_SharedLoggerSerialized ==
    (\A t \in Writers : writers[t] = "idle") =>
        /\ \A i \in 1..Len(recorded) :
              Occurrences(recorded[i], Written)
                  + Occurrences(recorded[i], store.buffer) = 1
        /\ store.line_count = Len(Written)

---------------------------------------------------------------------------
(* Further properties of the NetworkClient.                                *)

\* C21: a socket is held only after a successful connect(): when connect()
\* has failed (called by send() for a client without a socket, or as the
\* reconnect after a transport error) the client holds no socket, so that
\* the next send() starts with the implicit connect.
C21_FailedConnectLeavesNoSocket ==
    cli.socket # 0 => conn[cli.socket].peer # "unconnected"

\* how far send() is from returning: the attempts still allowed, and within
\* an attempt the steps still to take
Rank(C) ==
    IF C.pc = "idle"
    THEN 0
    ELSE 3 * (C.retries - C.retry_count)
         + (IF C.pc = "loop" THEN 3 ELSE IF C.pc = "recv" THEN 2 ELSE 1)

\* the attempts the running send() has started
Attempts(C) == Len(C.ends) + (IF C.pc = "recv" THEN 1 ELSE 0)

LiveSockets == {c \in Conns : conn[c].peer = "open"}

---------------------------------------------------------------------------
(* Further properties of the listener.                                     *)

\* C24: stop() is effective whenever it is called: once stop() has returned
\* the accept loop accepts no further connection, also when stop() ran
\* before start() has set the running flag.
C24_NoAcceptAfterStop ==
    [][spc = "done" =>
         \A c \in Conns : conn'[c].ssock = "open" => conn[c].ssock = "open"]_vars

\* the threads that are inside a critical section of the registry
InCritical ==
    (IF apc = "append" THEN 1 ELSE 0)
    + (IF spc = "closeall" THEN 1 ELSE 0)
    + Cardinality({c \in Conns : conn[c].hpc = "unreg"})

\* C25: the insert of the accept loop, the remove of a handler and the
\* iterate-close-clear of stop() run while holding the registry lock: at
\* most one thread is in such a section, it is the holder of the lock, and
\* the registry changes only in a step of the holder that releases the lock.
C25_RegistryUnderLock ==
    /\ [](/\ InCritical <= 1
          /\ apc = "append" <=> lock = "start"
          /\ spc = "closeall" <=> lock = "stop"
          /\ (\E c \in Conns : conn[c].hpc = "unreg") <=> lock = "handler")
    /\ [][registry' # registry => lock # "none" /\ lock' = "none"]_vars

C25_Witness ==
    /\ lock = "handler"
    /\ apc = "lock"
    /\ spc = "lock"
    /\ registry # <<>>

---------------------------------------------------------------------------
(* Further properties of the Logger.                                       *)

\* the flush policy of one log_reading step, stated on the buffer length n
\* after the append: flush and rotation check when n has reached
\* buffer_size, otherwise when n is a multiple of 10, otherwise neither
PolicyOfStep ==
    LET n == Len(store.buffer) + 1
        row == recorded'[Len(recorded')]
        primary == n >= config.buffer_size
        secondary == ~primary /\ n % 10 = 0
        appended == [store EXCEPT !.buffer = Append(@, row)]
    IN  /\ store.current_file /\ (primary \/ secondary) =>
              justFlushed' = appended.buffer /\ store'.buffer = <<>>
        /\ ~(primary \/ secondary) => justFlushed' = <<>> /\ store' = appended
        /\ rotlog' # rotlog => primary \/ secondary
        /\ secondary => config.buffer_size > 10

\* C26 as stated: the flush policy, and when log_reading returns with an
\* open file the buffer holds no more than min(buffer_size, 10) rows.
C26_FlushPolicy ==
    [][recorded' # recorded =>
         /\ PolicyOfStep
         /\ store'.current_file =>
                Len(store'.buffer) <= Min(config.buffer_size, 10)]_vars

\* C26 amended: the flush policy; a log_reading on an open file never lets
\* the buffer grow to min(buffer_size, 10) rows (fewer before the call,
\* fewer after it), so the bound holds as long as no row was buffered
\* without an open file.
C26_FlushPolicyOpenFile ==
    [][recorded' # recorded =>
         /\ PolicyOfStep
         /\ store.current_file
            /\ Len(store.buffer) < Min(config.buffer_size, 10) =>
                Len(store'.buffer) < Min(config.buffer_size, 10)
         /\ "stop" \notin called =>
                Len(store'.buffer) < Min(config.buffer_size, 10)]_vars

C26_Witness ==
    /\ config.buffer_size = 12
    /\ "stop" \notin called
    /\ Len(recorded) = 11
    /\ rotlog # <<>>
    /\ rotlog[1].records = 10
    /\ Len(store.buffer) = 1

\* what the active file holds: the lines on disk and the text still in the
\* open handle
FileText(S) ==
    S.disk[S.current_file_path] \o (IF S.current_file THEN S.pending ELSE <<>>)

\* C27: flush() with buffered rows and an open file appends the rows to the
\* active file in arrival order, adds their number to line_count and empties
\* the buffer, and changes nothing else; flush() with an empty buffer or
\* without an open file changes nothing, the buffered rows are kept.
C27_FlushFrame ==
    [][Flush =>
         IF store.current_file /\ store.buffer # <<>>
         THEN /\ store'.disk[store.current_file_path] = FileText(store) \o store.buffer
              /\ store'.line_count = store.line_count + Len(store.buffer)
              /\ store'.buffer = <<>>
              /\ store' = [store EXCEPT !.disk = store'.disk, !.pending = <<>>,
                                        !.line_count = store'.line_count,
                                        !.buffer = <<>>]
              /\ DOMAIN store'.disk = DOMAIN store.disk
              /\ \A f \in DOMAIN store.disk \ {store.current_file_path} :
                    store'.disk[f] = store.disk[f]
         ELSE store' = store]_vars

C27_Witness ==
    /\ config.buffer_size = 2
    /\ called = {"flush"}
    /\ Len(justFlushed) = 1
    /\ store.buffer = <<>>
    /\ store.current_file
    /\ store.disk[store.current_file_path][Len(store.disk[store.current_file_path])]
         = justFlushed[1]

\* the three triggers, on the store S at the time of a rotation check
TimeTrigger(S) == now - S.last_rotation_time >= config.rotate_every

SizeTrigger(S) ==
    /\ S.current_file_path \in DOMAIN S.disk
    /\ Len(S.disk[S.current_file_path]) >= config.max_size

RowsTrigger(S) == S.line_count >= config.rotate_after_lines

\* the step took the store from S (the store at the check) through a
\* rotation: the active file of S is archived as it was, and a new file is
\* open with now as the rotation anchor
RotatedFrom(S) ==
    /\ S.current_file_path \in DOMAIN store'.archive
    /\ store'.archive[S.current_file_path] =
           [content |-> S.disk[S.current_file_path], mtime |-> now]
    /\ store'.current_file
    /\ store'.current_file_path = FileName(now)
    /\ store'.last_rotation_time = now
    /\ store'.disk[FileName(now)] = <<>>
    /\ store'.pending = <<Header>>

\* the rotation check of a step, made on S
CheckedOn(S) ==
    IF TimeTrigger(S) \/ SizeTrigger(S) \/ RowsTrigger(S)
    THEN RotatedFrom(S)
    ELSE store' = S

\* C28: at every rotation check (after the flush of a log_reading whose
\* flush condition holds, and in stop) the store rotates if and only if at
\* least one of the three triggers holds: one alone suffices, and nothing
\* changes when none holds.
C28_RotatesIffATrigger ==
    [][/\ Stop => CheckedOn(CloseOp(FlushOp(store)))
       /\ recorded' # recorded =>
            LET row == recorded'[Len(recorded')]
                S1 == [store EXCEPT !.buffer = Append(@, row)]
            IN  IF Len(S1.buffer) >= config.buffer_size \/ Len(S1.buffer) % 10 = 0
                THEN CheckedOn(FlushOp(S1))
                ELSE store' = S1]_vars

C28_Witness ==
    /\ config.max_size = 3
    /\ now = 0
    /\ called = {}
    /\ rotlog # <<>>
    /\ Len(rotlog[1].content) = 3
    /\ store.line_count < config.rotate_after_lines

\* line is the header row (a data row carries a sensor id and the unit "u")
IsHeader(line) == line[2] = Header[2] /\ line[4] = Header[4]

\* lines start with the header and hold it nowhere else
HeaderOnce(lines) ==
    /\ lines # <<>>
    /\ IsHeader(lines[1])
    /\ \A i \in 2..Len(lines) : ~IsHeader(lines[i])

\* the text of file f: its lines on disk, and for the active file the text
\* still in the open handle
TextOf(f) ==
    store.disk[f] \o (IF f = store.current_file_path /\ store.current_file
                      THEN store.pending ELSE <<>>)

\* C29: every file of the store, active or archived, holds the header row
\* exactly once, as its first line, after any sequence of start (on a new
\* or an existing file), log_reading, flush, rotation and stop.
C29_HeaderExactlyOnce ==
    /\ \A f \in DOMAIN store.disk : HeaderOnce(TextOf(f))
    /\ \A a \in DOMAIN store.archive : HeaderOnce(store.archive[a].content)

C29_Witness ==
    /\ nstarts = 2
    /\ rotlog = <<>>
    /\ called = {"stop"}
    /\ store.current_file
    /\ store.pending = <<>>
    /\ Len(store.disk[store.current_file_path]) = 3
    /\ store.buffer = <<>>
    /\ justFlushed # <<>>

---------------------------------------------------------------------------
(* Isolation of the connections.                                           *)

\* a connection with no event of its own: the client end is open and every
\* line written on it is a well-formed message
Healthy(K) ==
    /\ K.peer = "open"
    /\ \A i \in DOMAIN K.sent : K.sent[i] = JsonLine

\* C30: whatever happens on the other connections (transport error, framing
\* error, idle timeout, close), the accept loop keeps running and the
\* handler of a connection with no event of its own ends only by its own
\* idle timeout, and until then reads and acknowledges every message.
C30_ErrorIsolation ==
    /\ apc # "exited"
    /\ \A c \in Conns :
          LET K == conn[c]
          IN  Healthy(K) =>
                /\ K.hend \in {"none", "timeout"}
                /\ K.acks = K.nlines
                /\ K.decoded = [i \in 1..K.acks |-> 1]
                /\ Drained(K) => K.acks = Len(K.sent)
                /\ K.hend = "none" /\ K.ssock # "none" =>
                      K.ssock = "open" /\ K.hpc \in {"recv", "lines"}

\* the handler of connection 1 was ended by an error while connection 2 has
\* all its messages acknowledged and its handler still reading
C30_Witness ==
    /\ conn[1].hend \in {"Exception", "OSError"}
    /\ conn[1].hpc = "done"
    /\ Healthy(conn[2])
    /\ Len(conn[2].sent) = MaxMsgs
    /\ conn[2].acks = MaxMsgs
    /\ conn[2].hpc = "recv"
    /\ apc = "accept"

---------------------------------------------------------------------------
(* Reframing.                                                              *)

\* the bytes of a sequence of writes
RECURSIVE Bytes(_)
Bytes(writes) ==
    IF writes = <<>> THEN <<>> ELSE Head(writes).bytes \o Bytes(Tail(writes))

\* the values a handler decodes from a byte stream that arrives in one piece
RECURSIVE StreamValues(_)
StreamValues(stream) ==
    IF ~HasLine(stream)
    THEN <<>>
    ELSE LET i == FirstNL(stream)
             d == Deserialize(SubSeq(stream, 1, i))
             rest == SubSeq(stream, i + 1, Len(stream))
         IN  CASE d.status = "ok" -> <<d.value>> \o StreamValues(rest)
               [] d.status = "JSONDecodeError" -> StreamValues(rest)
               [] OTHER -> <<>>

\* the bytes such a handler has left in its buffer
RECURSIVE StreamRest(_)
StreamRest(stream) ==
    IF ~HasLine(stream)
    THEN stream
    ELSE LET i == FirstNL(stream)
             d == Deserialize(SubSeq(stream, 1, i))
             rest == SubSeq(stream, i + 1, Len(stream))
         IN  IF d.status \in {"ok", "JSONDecodeError"} THEN StreamRest(rest) ELSE rest

\* the bytes the handler of K has received
Received(K) ==
    SubSeq(Bytes(K.sent), 1, Len(Bytes(K.sent)) - Len(K.wire))

\* C31: the messages a handler decodes depend on the bytes it has received
\* and not on how they were split into reads: they are the messages of the
\* same bytes received in one piece, each acknowledged once, and the bytes
\* after the last newline stay in the buffer, undecoded and unacknowledged,
\* also when the connection has ended.
C31_ReframingIgnoresChunks ==
    \A c \in Conns :
       LET K == conn[c]
       IN  /\ K.acks = Len(K.decoded)
           /\ K.hpc = "lines" =>
                 K.decoded \o StreamValues(K.hbuf) = StreamValues(Received(K))
           /\ K.hpc # "lines" =>
                 /\ K.decoded = StreamValues(Received(K))
                 /\ K.hbuf = StreamRest(Received(K))

\* the first of two messages is decoded and acknowledged, and a read has
\* ended in the middle of the second: its first byte is buffered, its
\* newline not yet received
C31_Witness ==
    /\ conn[1].sent = <<JsonLine, JsonLine>>
    /\ conn[1].decoded = <<1>>
    /\ conn[1].acks = 1
    /\ conn[1].hbuf = <<"1">>
    /\ conn[1].wire = <<NL>>
    /\ conn[1].hpc = "recv"

---------------------------------------------------------------------------
(* Properties of run_client.                                               *)

\* the number of failures at the end of a sequence of send() results
RECURSIVE TrailingFailures(_)
TrailingFailures(results) ==
    IF results = <<>> \/ results[Len(results)]
    THEN 0
    ELSE 1 + TrailingFailures(SubSeq(results, 1, Len(results) - 1))

\* C32: the counter of run_client is the number of consecutive failed
\* send() calls (0 after a success, one more after a failure); the loop
\* stops for that reason at the send() that brings the counter to the
\* maximum, which is the retries setting, and never at a lower count, and
\* once stopped it closes the client.
C32_StopsAtMaxConsecutiveFailures ==
    /\ [](/\ app.max_consecutive_failures = app.retries
          /\ app.consecutive_failures = TrailingFailures(app.results)
          /\ app.cause = "failures" =>
                /\ app.pc \in {"finally", "done"}
                /\ app.consecutive_failures >= app.max_consecutive_failures
          /\ app.results # <<>> /\ app.pc \in {"send", "sleep"} =>
                app.consecutive_failures < app.max_consecutive_failures
          /\ app.pc = "done" => app.connector = "closed")
    /\ [][app'.results # app.results =>
            LET ok == app'.results[Len(app'.results)]
            IN  /\ ok => app'.consecutive_failures = 0 /\ app'.pc = "sleep"
                /\ ~ok => /\ app'.consecutive_failures = app.consecutive_failures + 1
                          /\ app'.cause = "failures" <=>
                                app'.consecutive_failures >= app.retries]_vars

\* with retries = 3: a failure, a success that resets the counter, then
\* three failures in a row, after which the loop has stopped and closed
C32_Witness ==
    /\ app.retries = 3
    /\ app.results = <<FALSE, TRUE, FALSE, FALSE, FALSE>>
    /\ app.cause = "failures"
    /\ app.pc = "done"
    /\ app.connector = "closed"

---------------------------------------------------------------------------
(* Properties of the query.                                                *)

\* the sensor_id arguments of read_logs: none, or a sensor
Filters == Sensors \cup {NoFilter}

\* the row satisfies the query
Selected(row, start, end, sensor_id) ==
    /\ start <= FromIsoFormat(row[1])
    /\ FromIsoFormat(row[1]) <= end
    /\ sensor_id # NoFilter => row[2] = sensor_id

\* the line of the file on which the reading stands
LineOf(lines, reading) ==
    CHOOSE p \in 2..Len(lines) : RowReading(lines[p]) = reading

\* the query on one file yields the selected rows of the file, in the order
\* of the file
FileQuery(lines, start, end, sensor_id) ==
    LET Q == ParseLines(lines, start, end, sensor_id)
    IN  /\ SeqRange(Q) = {RowReading(x) :
                            x \in {y \in DataLines(lines) :
                                      Selected(y, start, end, sensor_id)}}
        /\ \A i \in DOMAIN Q : \A j \in DOMAIN Q :
              i < j => LineOf(lines, Q[i]) < LineOf(lines, Q[j])

\* C33: a query yields a persisted row if and only if its timestamp lies in
\* [start, end], both bounds included, and its sensor_id is the one asked
\* for when one is given; the rows of one file come in their order in the
\* file, and live files and archives are filtered alike.
C33_QueryFilter ==
    \A s \in QueryBounds, e \in QueryBounds, sid \in Filters :
       /\ ReadLogs(store, s, e, sid) =
             {RowReading(x) : x \in {y \in PersistedRows : Selected(y, s, e, sid)}}
       /\ \A f \in DOMAIN store.disk : FileQuery(store.disk[f], s, e, sid)
       /\ \A a \in DOMAIN store.archive :
             FileQuery(store.archive[a].content, s, e, sid)

\* a live file holds rows of both sensors, an archive holds rows too, and
\* the query for one sensor at its timestamp returns some persisted rows
\* and leaves others out
C33_Witness ==
    /\ \E f \in DOMAIN store.disk :
          /\ Len(store.disk[f]) > 2
          /\ Len(ParseLines(store.disk[f], 1, 1, "s1")) = 1
          /\ Len(ParseLines(store.disk[f], 1, 2, NoFilter)) = 2
    /\ \E a \in DOMAIN store.archive :
          ParseLines(store.archive[a].content, 2, 2, "s2") # <<>>

====
